---- MODULE Spec2Model ----
(***************************************************************************)
(* Magic Hand: the file-stability + classification pipeline.               *)
(*                                                                         *)
(* Strings the code takes apart (paths, file names, extensions) are        *)
(* sequences of tokens: "/" and "." are tokens of their own, every other   *)
(* token is a run of characters the code never splits.  MIME types and     *)
(* category labels are only compared, so they stay plain strings.          *)
(***************************************************************************)
EXTENDS Integers, Sequences, FiniteSets, TLC

\* ------------------------------------------------------------------ bounds

\* Entries a cache file found at startup may hold.
MaxCacheEntries == 1

\* Files the user drops on the desktop during a run.
MaxFiles == 2

\* File sizes range over 1..MaxSize.
MaxSize == 2

\* Notifications the observer holds undelivered.
MaxEvents == 1

\* Largest counter suffix a file left in the library by an earlier run may carry.
MaxTaken == 3

\* Last reading of the clock in the runs of the stability tracker on its own.
MaxTime == 2

\* --------------------------------------------------- string / path helpers

\* Index of the last occurrence of token c in s, 0 when there is none (str.rfind + 1).
RFind(s, c) ==
  IF \E i \in 1..Len(s) : s[i] = c
    THEN CHOOSE i \in 1..Len(s) : s[i] = c /\ \A j \in (i+1)..Len(s) : s[j] # c
    ELSE 0

\* str.lower on one token.
LowerTok(t) ==
  CASE t = "TMP" -> "tmp"
    [] t = "PDF" -> "pdf"
    [] OTHER -> t

\* str.lower
lower(s) == [i \in 1..Len(s) |-> LowerTok(s[i])]

\* `sub in s` on strings
Contains(s, sub) ==
  \E i \in 0..(Len(s) - Len(sub)) : SubSeq(s, i + 1, i + Len(sub)) = sub

\* str.startswith
startswith(s, pre) == Len(s) >= Len(pre) /\ SubSeq(s, 1, Len(pre)) = pre

\* os.path.join of a directory and a relative name
join(a, b) == a \o <<"/">> \o b

\* os.path.basename
basename(p) == SubSeq(p, RFind(p, "/") + 1, Len(p))

\* os.path.splitext: the extension starts at the last dot of the last
\* component, unless only dots precede it there.
splitext(p) ==
  LET sepIndex == RFind(p, "/")
      dotIndex == RFind(p, ".")
  IN IF dotIndex > sepIndex /\ \E k \in (sepIndex + 1)..(dotIndex - 1) : p[k] # "."
       THEN <<SubSeq(p, 1, dotIndex - 1), SubSeq(p, dotIndex, Len(p))>>
       ELSE <<p, <<>>>>

\* s[1:]
DropFirst(s) == IF Len(s) = 0 THEN <<>> ELSE Tail(s)

DigitChars == <<"0", "1", "2", "3", "4", "5", "6", "7", "8", "9">>

\* str(n) for a natural number
RECURSIVE StrNat(_)
StrNat(n) ==
  IF n < 10 THEN <<DigitChars[n + 1]>>
  ELSE StrNat(n \div 10) \o <<DigitChars[(n % 10) + 1]>>

\* ------------------------------------------------------------ file system

desktop_path == <<"~/Desktop">>
root_path == join(desktop_path, <<"Magic Hand">>)
ai_library == join(root_path, <<"AI Library">>)
manual_library == join(root_path, <<"Manual Library">>)

\* --------------------------------------------------------------- classifier

None == "None"

CategoryOrder == <<"Design", "Documents", "Images", "Code", "Others">>
Categories == {CategoryOrder[i] : i \in 1..Len(CategoryOrder)}

\* self.categories
categories ==
  [c \in Categories |->
     CASE c = "Design" ->
            [extensions |-> {<<"psd">>, <<"ai">>, <<"sketch">>, <<"fig">>, <<"xd">>},
             mime_types |-> {"application/x-photoshop", "application/illustrator",
                             "application/x-sketch"}]
       [] c = "Documents" ->
            [extensions |-> {<<"pdf">>, <<"doc">>, <<"docx">>, <<"txt">>, <<"rtf">>},
             mime_types |-> {"application/pdf", "application/msword", "text/plain"}]
       [] c = "Images" ->
            [extensions |-> {<<"jpg">>, <<"jpeg">>, <<"png">>, <<"gif">>, <<"webp">>},
             mime_types |-> {"image/jpeg", "image/png", "image/gif"}]
       [] c = "Code" ->
            [extensions |-> {<<"py">>, <<"js">>, <<"html">>, <<"css">>, <<"json">>},
             mime_types |-> {"text/x-python", "application/javascript", "text/html"}]
       [] OTHER ->
            [extensions |-> {}, mime_types |-> {}]]

\* mimetypes.guess_type: the platform table (the entries of the extensions
\* used here) with the add_type registrations made at import.
guess_type(file_path) ==
  LET ext == lower(splitext(file_path)[2])
  IN CASE ext = <<".", "psd">> -> "application/x-photoshop"
       [] ext = <<".", "psb">> -> "application/x-photoshop"
       [] ext = <<".", "ai">> -> "application/illustrator"
       [] ext = <<".", "sketch">> -> "application/x-sketch"
       [] ext = <<".", "fig">> -> "application/x-figma"
       [] ext = <<".", "xd">> -> "application/x-adobe-xd"
       [] ext = <<".", "pdf">> -> "application/pdf"
       [] ext = <<".", "txt">> -> "text/plain"
       [] ext = <<".", "htm">> -> "text/html"
       [] OTHER -> None

\* AIClassifier._get_mime_type
get_mime_type(file_path, extension) ==
  LET mime_type == guess_type(file_path)
      e == lower(extension)
  IN IF mime_type = None
       THEN CASE e \in {<<".", "psd">>, <<".", "psb">>} -> "application/x-photoshop"
              [] e = <<".", "ai">> -> "application/illustrator"
              [] e = <<".", "sketch">> -> "application/x-sketch"
              [] e = <<".", "fig">> -> "application/x-figma"
              [] e = <<".", "xd">> -> "application/x-adobe-xd"
              [] OTHER -> "application/octet-stream"
       ELSE mime_type

\* The in-memory cache is whatever json.load returned: a dict (map), a list
\* or string (a container supporting `in` but not string-keyed access; map's
\* domain holds its members) or a scalar (number, null, boolean).
EmptyMap == [p \in {} |-> "Others"]
EmptyCache == [kind |-> "dict", map |-> EmptyMap]

\* AIClassifier.load_cache
load_cache(file) ==
  IF file.kind \in {"absent", "unparsable"}
    THEN EmptyCache
    ELSE [kind |-> file.kind, map |-> file.map]

\* AIClassifier.save_cache: the file content json.dump writes
save_cache(c) == [kind |-> c.kind, map |-> c.map]

\* self.cache[file_path] = category, on a dict
CachePut(c, file_path, category) ==
  [c EXCEPT !.map = [q \in (DOMAIN c.map) \cup {file_path} |->
                       IF q = file_path THEN category ELSE c.map[q]]]

\* AIClassifier.get_file_info: None when the size cannot be read (the file
\* vanished or is unreadable); a present file that cannot be decoded only
\* loses its preview.
get_file_info(st) == IF st = "present" THEN "info" ELSE None

\* First category, in the dict's order, whose rule set holds x.
FirstMatch(field, x) ==
  LET hits == {i \in 1..Len(CategoryOrder) : x \in categories[CategoryOrder[i]][field]}
  IN IF hits = {} THEN None
     ELSE CategoryOrder[CHOOSE i \in hits : \A j \in hits : i <= j]

Returned(c, category, how, asked) ==
  [cache |-> c, ret |-> category, exit |-> how, remote |-> asked, raised |-> FALSE]

Raised(c, asked) ==
  [cache |-> c, ret |-> None, exit |-> "raise", remote |-> asked, raised |-> TRUE]

\* Mutant of StoreAndReturn: the category is returned but never cached.
StoreAndReturn_NoStore(c, file_path, category, how, asked) ==
  IF c.kind = "dict"
    THEN Returned(c, category, how, asked)
    ELSE Raised(c, asked)

\* self.cache[file_path] = category; return category
StoreAndReturn(c, file_path, category, how, asked) ==
  IF c.kind = "dict"
    THEN Returned(CachePut(c, file_path, category), category, how, asked)
    ELSE Raised(c, asked)

\* AIClassifier.classify_file from the answer of the remote request on: a
\* valid label of a 200 response is cached and returned (a failed write is
\* caught by the except clause), everything else falls through to "Others".
remote_step(c, file_path, outcome) ==
  IF outcome \in Categories /\ c.kind = "dict"
    THEN StoreAndReturn(c, file_path, outcome, "remote", TRUE)
    ELSE StoreAndReturn(c, file_path, "Others", "fallback", TRUE)

\* AIClassifier.classify_file.  st is the state of the file on disk and
\* outcome what the remote request does: "raise", "non200", "malformed" or
\* the label of a well-formed 200 response.
classify_file(c, file_path, st, outcome) ==
  LET extension == lower(splitext(file_path)[2])
      mime_type == get_mime_type(file_path, extension)
      byExt == FirstMatch("extensions", DropFirst(extension))
      byMime == FirstMatch("mime_types", mime_type)
  IN IF c.kind = "scalar" THEN Raised(c, FALSE)
     ELSE IF file_path \in DOMAIN c.map
       THEN IF c.kind = "dict"
              THEN Returned(c, c.map[file_path], "cache", FALSE)
              ELSE Raised(c, FALSE)
     ELSE IF get_file_info(st) = None THEN Returned(c, "Others", "noinfo", FALSE)
     ELSE IF byExt # None THEN StoreAndReturn(c, file_path, byExt, "extension", FALSE)
     ELSE IF byMime # None THEN StoreAndReturn(c, file_path, byMime, "mime", FALSE)
     ELSE remote_step(c, file_path, outcome)

\* ------------------------------------------------------------------ state

VARIABLES
  cacheFile,    \* content of classification_cache.json on disk
  cache,        \* AIClassifier.cache
  last,         \* the most recent classify_file call made on the classifier
  prev,         \* the call before it (kept by the classifier's own specification)
  fs,           \* the files directly on the desktop: path -> [id, size], id = <<path, n>>
                \* for the n-th file dropped at that path
  lib,          \* the files under Magic Hand/AI Library: path -> id of the file
  overwritten,  \* ids of library files a move has replaced
  created,      \* number of files the user has dropped so far, per desktop path
  file_states,  \* FileOrganizer.file_states
  events,       \* notifications the running observer has not dispatched yet
  th,           \* where the observer thread "W" and the Qt main thread "M" stand
  scanTodo,     \* items of the os.listdir snapshot _scan_existing_files still has to visit
  observer,     \* MagicHandApp.observer: "none" (None), "running" or "stopped"
  is_paused,    \* MagicHandApp.is_paused
  ui,           \* how the most recent toggle_pause ended
  now,          \* datetime.now(); only the tracker's own specification advances it,
                \* no decision of the program reads a time stamp
  obs,          \* the most recent is_file_stable call made on the tracker directly
  env_key,      \* os.environ['OPENAI_API_KEY']
  api_key       \* AIClassifier.api_key

clVars == <<cacheFile, cache, last, prev>>
orgVars == <<fs, lib, overwritten, created, file_states, events, th, scanTodo>>
appVars == <<observer, is_paused, ui>>
trVars == <<now, obs>>
keyVars == <<env_key, api_key>>
vars == <<clVars, orgVars, appVars, trVars, keyVars>>

\* Names of files dropped on the desktop.
N_PDF == <<"R", ".", "PDF">>
N_htm == <<"i", ".", "htm">>
N_xyz == <<"n", ".", "xyz">>
N_hidden == <<".", "h">>
N_tmp == <<"b", ".", "TMP">>
N_mh == <<"Magic Hand", ".", "pdf">>

ClPaths == {join(desktop_path, n) : n \in {N_PDF, N_htm, N_xyz}}

FileStates == {"present", "vanished", "unreadable"}
RemoteOutcomes == {"raise", "non200", "malformed", "Foo"} \cup Categories

\* What a cache file can hold: JSON written by any earlier run or by hand.
CacheValues == Categories \cup {"Foo"}
SmallMaps(P, V) ==
  UNION {[D -> V] : D \in {D \in SUBSET P : Cardinality(D) <= MaxCacheEntries}}
CacheFiles(P, V) ==
  {[kind |-> k, map |-> EmptyMap] : k \in {"absent", "unparsable", "scalar"}}
    \cup {[kind |-> "dict", map |-> m] : m \in SmallMaps(P, V)}
    \cup {[kind |-> "list", map |-> m] : m \in SmallMaps(P, {"member"})}

NoCall == [path |-> <<>>, ret |-> None, exit |-> "none", remote |-> FALSE,
           raised |-> FALSE, outcome |-> None, key |-> None]

\* The record of a classify_file call that ended as r; a remote request
\* carries the classifier's api_key as its bearer token.
CallRecord(p, r, o) ==
  [path |-> p, ret |-> r.ret, exit |-> r.exit, remote |-> r.remote,
   raised |-> r.raised, outcome |-> IF r.remote THEN o ELSE None,
   key |-> IF r.remote THEN api_key ELSE None]

\* The keys the user may type into the settings dialog.
Keys == {"k0", "k1"}

NoFile == [id |-> <<>>, size |-> 0]

\* No is_file_stable call yet / the record of one: the path, the size found
\* (0 for no file), whether the path was tracked and with what size, the
\* clock, and what the call returned.
NoObs == [path |-> <<>>, size |-> 0, tracked |-> FALSE, old |-> 0, at |-> 0, ret |-> FALSE]
Idle == [pc |-> "idle", path |-> <<>>, category |-> None, target |-> <<>>]
Threads == {"W", "M"}

DeskNames == {N_xyz, N_hidden, N_tmp}
DeskPaths == {join(desktop_path, n) : n \in DeskNames}

\* The two-thread runs also see a file whose name begins like the managed root.
ThreadsPaths == DeskPaths \cup {join(desktop_path, N_mh)}
Sizes == 1..MaxSize

\* What the remote request does in the runs of the whole application: a
\* failure and a valid label.
AppRemoteOutcomes == {"non200", "Code"}

\* ------------------------------------------------ the classifier on its own

\* AIClassifier.__init__ in a process that finds cacheFile on disk.
InitClassifier ==
  /\ cacheFile \in CacheFiles(ClPaths, CacheValues)
  /\ cache = load_cache(cacheFile)
  /\ last = NoCall
  /\ prev = NoCall
  /\ fs = [p \in DeskPaths |-> NoFile]
  /\ lib = <<>>
  /\ overwritten = {}
  /\ created = [p \in DeskPaths |-> 0]
  /\ file_states = <<>>
  /\ events = {}
  /\ th = [t \in Threads |-> Idle]
  /\ scanTodo = {}
  /\ observer = "none"
  /\ is_paused = FALSE
  /\ ui = "none"
  /\ now = 0
  /\ obs = NoObs
  /\ env_key = "k0"
  /\ api_key = env_key

\* One call of classify_file by the classifier's only caller.
ClassifyCall ==
  \E p \in ClPaths, st \in FileStates, o \in RemoteOutcomes :
    LET r == classify_file(cache, p, st, o)
    IN /\ cache' = r.cache
       /\ prev' = last
       /\ last' = CallRecord(p, r, o)
       /\ UNCHANGED <<cacheFile, orgVars, appVars, trVars, keyVars>>

\* The process ends and a new one constructs the classifier again.
Construct ==
  /\ cache' = load_cache(cacheFile)
  /\ last' = NoCall
  /\ prev' = NoCall
  /\ UNCHANGED <<cacheFile, orgVars, appVars, trVars, keyVars>>

NextClassifier == ClassifyCall \/ Construct

SpecClassifier == InitClassifier /\ [][NextClassifier]_vars

\* ------------------------------------------------------------ the organizer

\* os.path.exists
exists(p) == (p \in DOMAIN fs /\ fs[p] # NoFile) \/ p \in DOMAIN lib

\* What a path may name when it is read: the desktop file with its size, a
\* library file (whose size nothing here keeps track of), or nothing.
FilesAt(p) ==
  IF p \in DOMAIN fs THEN {fs[p]}
  ELSE IF p \in DOMAIN lib THEN {[id |-> lib[p], size |-> sz] : sz \in 1..MaxSize}
  ELSE {NoFile}

\* f with p mapped to v.
Put(f, p, v) == [q \in (DOMAIN f) \cup {p} |-> IF q = p THEN v ELSE f[q]]

\* f without p.
Drop(f, p) == [q \in (DOMAIN f) \ {p} |-> f[q]]

Directories == {desktop_path, root_path, ai_library, manual_library}

\* Mutant of Tracked: stable_since is not set to the time of the call.
Tracked_StaleStableSince(size, current_time) ==
  [size |-> size, last_modified |-> current_time, stable_since |-> 0]

\* The entry is_file_stable writes: size, last_modified, stable_since
Tracked(size, current_time) ==
  [size |-> size, last_modified |-> current_time, stable_since |-> current_time]

\* Mutant of is_file_stable: a path seen for the first time is not stable.
is_file_stable_NewIsUnstable(states, file_path, f, current_time) ==
  IF f = NoFile THEN [ret |-> FALSE, states |-> states]
  ELSE IF startswith(basename(file_path), <<".">>) THEN [ret |-> FALSE, states |-> states]
  ELSE IF file_path \notin DOMAIN states
    THEN [ret |-> FALSE, states |-> Put(states, file_path, Tracked(f.size, current_time))]
  ELSE IF f.size # states[file_path].size
    THEN [ret |-> FALSE, states |-> Put(states, file_path, Tracked(f.size, current_time))]
  ELSE [ret |-> TRUE, states |-> states]

\* FileOrganizer.is_file_stable at time current_time on a path that names file f
is_file_stable(states, file_path, f, current_time) ==
  IF f = NoFile THEN [ret |-> FALSE, states |-> states]
  ELSE IF startswith(basename(file_path), <<".">>) THEN [ret |-> FALSE, states |-> states]
  ELSE IF file_path \notin DOMAIN states
    THEN [ret |-> TRUE, states |-> Put(states, file_path, Tracked(f.size, current_time))]
  ELSE IF f.size # states[file_path].size
    THEN [ret |-> FALSE, states |-> Put(states, file_path, Tracked(f.size, current_time))]
  ELSE [ret |-> TRUE, states |-> states]

\* Mutant of IsIgnored: the temp marker is matched case-sensitively.
IsIgnored_CaseSensitive(filename) ==
  startswith(filename, <<".">>) \/ Contains(filename, <<".", "tmp">>)

\* organize_file's filter: hidden and temporary files
IsIgnored(filename) ==
  startswith(filename, <<".">>) \/ Contains(lower(filename), <<".", "tmp">>)

\* on_created / on_modified: directories and paths holding the managed root
IsFiltered(src_path) ==
  src_path \in Directories \/ Contains(src_path, root_path)

\* organize_file's collision loop: name 1.ext, name 2.ext, ... until free
RECURSIVE Probe(_, _, _, _, _)
Probe(target_dir, name, ext, counter, taken) ==
  LET target_path == join(target_dir, name \o <<" ">> \o StrNat(counter) \o ext)
  IN IF target_path \in taken
       THEN Probe(target_dir, name, ext, counter + 1, taken)
       ELSE target_path

\* Mutant of TargetPath: the counter starts at 2.
TargetPath_FromTwo(target_dir, filename, taken) ==
  LET target_path == join(target_dir, filename)
  IN IF target_path \in taken
       THEN Probe(target_dir, splitext(filename)[1], splitext(filename)[2], 2, taken)
       ELSE target_path

\* organize_file's target path for filename in target_dir
TargetPath(target_dir, filename, taken) ==
  LET target_path == join(target_dir, filename)
  IN IF target_path \in taken
       THEN Probe(target_dir, splitext(filename)[1], splitext(filename)[2], 1, taken)
       ELSE target_path

\* Where thread t stands once watch_file has returned: the observer thread
\* waits for the next event, the main thread is back in the scan loop.
Finish(t) == IF t = "M" THEN [Idle EXCEPT !.pc = "scan"] ELSE Idle

\* A notification for path p, when an observer is running.
Notified(p) == IF observer = "running" THEN events \cup {p} ELSE events

\* What classify_file is given to read at file_path.
DiskState(file_path) == IF exists(file_path) THEN "present" ELSE "vanished"

\* Mutant of MoveFile: a move that fails removes the source file.
MoveFile_LosesSource(src, dst, ok) ==
  IF ok /\ exists(src)
    THEN /\ lib' = IF src \in DOMAIN fs THEN Put(lib, dst, fs[src].id)
                                         ELSE Put(Drop(lib, src), dst, lib[src])
         /\ fs' = IF src \in DOMAIN fs THEN [fs EXCEPT ![src] = NoFile] ELSE fs
         /\ overwritten' = IF dst \in DOMAIN lib /\ dst # src
                             THEN overwritten \cup {lib[dst]}
                             ELSE overwritten
    ELSE /\ fs' = IF src \in DOMAIN fs THEN [fs EXCEPT ![src] = NoFile] ELSE fs
         /\ UNCHANGED <<lib, overwritten>>

\* organize_file: shutil.move(src, dst).  It raises when the source is gone
\* or the file system refuses (ok = FALSE), and the file then stays where it
\* is; a rename replaces whatever is at the target.
MoveFile(src, dst, ok) ==
  IF ok /\ exists(src)
    THEN /\ lib' = IF src \in DOMAIN fs THEN Put(lib, dst, fs[src].id)
                                         ELSE Put(Drop(lib, src), dst, lib[src])
         /\ fs' = IF src \in DOMAIN fs THEN [fs EXCEPT ![src] = NoFile] ELSE fs
         /\ overwritten' = IF dst \in DOMAIN lib /\ dst # src
                             THEN overwritten \cup {lib[dst]}
                             ELSE overwritten
    ELSE UNCHANGED <<fs, lib, overwritten>>

\* FileOrganizer.organize_file, run to its end: o is what the remote request
\* does if one is made, ok whether the file system lets the move through.
organize_file(file_path, o, ok) ==
  LET filename == basename(file_path)
      r == classify_file(cache, file_path, DiskState(file_path), o)
      target_dir == join(ai_library, <<r.ret>>)
  IN IF IsIgnored(filename)
       THEN UNCHANGED <<cache, last, fs, lib, overwritten>>
       ELSE /\ cache' = r.cache
            /\ last' = CallRecord(file_path, r, o)
            /\ IF r.raised
                 THEN UNCHANGED <<fs, lib, overwritten>>
                 ELSE MoveFile(file_path, TargetPath(target_dir, filename, DOMAIN lib), ok)

\* FileOrganizer.watch_file, run to its end.
watch_file(file_path, o, ok) ==
  \E f \in FilesAt(file_path) :
    LET s == is_file_stable(file_states, file_path, f, now)
    IN /\ file_states' = s.states
       /\ IF s.ret
            THEN organize_file(file_path, o, ok)
            ELSE UNCHANGED <<cache, last, fs, lib, overwritten>>

\* Cache files the application starts on: none, a JSON list, and an object
\* with an entry whose value is no category.
StartupCacheFiles ==
  {f \in CacheFiles({join(desktop_path, N_xyz)}, {"Foo"}) :
     \/ f.kind = "absent"
     \/ f.kind = "list" /\ DOMAIN f.map = {}
     \/ f.kind = "dict" /\ DOMAIN f.map # {}}

\* MagicHandApp.__init__: folders made, classifier loaded, monitoring started
\* (start_monitoring leaves observer None when the observer cannot start).
Started(paths) ==
  /\ cacheFile \in StartupCacheFiles
  /\ cache = load_cache(cacheFile)
  /\ last = NoCall
  /\ prev = NoCall
  /\ fs = [p \in paths |-> NoFile]
  /\ lib = <<>>
  /\ overwritten = {}
  /\ created = [p \in paths |-> 0]
  /\ file_states = <<>>
  /\ events = {}
  /\ th = [t \in Threads |-> Idle]
  /\ scanTodo = {}
  /\ observer \in {"running", "none"}
  /\ is_paused = FALSE
  /\ ui = "none"
  /\ now = 0
  /\ obs = NoObs
  /\ env_key = "k0"
  /\ api_key = env_key

Init == Started(DeskPaths)

InitThreads == Started(ThreadsPaths)

RECURSIVE Sum(_, _)
Sum(f, S) == IF S = {} THEN 0 ELSE LET x == CHOOSE x \in S : TRUE IN f[x] + Sum(f, S \ {x})

\* Number of files the user has dropped so far.
Dropped == Sum(created, DOMAIN created)

\* The user drops a new file on the desktop.
UserCreate ==
  \E p \in DOMAIN fs, sz \in Sizes :
    /\ fs[p] = NoFile
    /\ Dropped < MaxFiles
    /\ Cardinality(Notified(p)) <= MaxEvents
    /\ created' = [created EXCEPT ![p] = @ + 1]
    /\ fs' = [fs EXCEPT ![p] = [id |-> <<p, created[p] + 1>>, size |-> sz]]
    /\ events' = Notified(p)
    /\ UNCHANGED <<clVars, lib, overwritten, file_states, th, scanTodo, appVars, trVars, keyVars>>

\* The user (or the writing program) changes the size of a desktop file.
UserWrite ==
  \E p \in DOMAIN fs, sz \in Sizes :
    /\ fs[p] # NoFile
    /\ fs[p].size # sz
    /\ Cardinality(Notified(p)) <= MaxEvents
    /\ fs' = [fs EXCEPT ![p].size = sz]
    /\ events' = Notified(p)
    /\ UNCHANGED <<clVars, lib, overwritten, created, file_states, th, scanTodo, appVars, trVars, keyVars>>

\* The platform reports a change of the desktop directory itself or of a
\* file below the managed root.
PlatformNotify ==
  \E p \in {desktop_path} \cup DOMAIN lib :
    /\ observer = "running"
    /\ p \notin events
    /\ Cardinality(events) < MaxEvents
    /\ events' = events \cup {p}
    /\ UNCHANGED <<clVars, fs, lib, overwritten, created, file_states, th, scanTodo, appVars, trVars, keyVars>>

\* MagicHandApp.organize_now: _scan_existing_files takes the os.listdir snapshot.
organize_now ==
  /\ th["M"].pc = "idle"
  /\ scanTodo' = {p \in DOMAIN fs : fs[p] # NoFile} \cup {root_path}
  /\ th' = [th EXCEPT !["M"].pc = "scan"]
  /\ UNCHANGED <<clVars, fs, lib, overwritten, created, file_states, events, appVars, trVars, keyVars>>

\* Mutant of ScanTakes: the test on the leading dot is inverted.
ScanTakes_OnlyHidden(file_path) ==
  /\ file_path \notin Directories
  /\ exists(file_path)
  /\ startswith(basename(file_path), <<".">>)

\* _scan_existing_files: os.path.isfile(file_path) and not item.startswith('.')
ScanTakes(file_path) ==
  /\ file_path \notin Directories
  /\ exists(file_path)
  /\ ~startswith(basename(file_path), <<".">>)

\* _scan_existing_files returns and organize_now shows its message.
ScanDone ==
  /\ th["M"].pc = "scan"
  /\ scanTodo = {}
  /\ th' = [th EXCEPT !["M"] = Idle]
  /\ UNCHANGED <<clVars, fs, lib, overwritten, created, file_states, events, scanTodo, appVars, trVars, keyVars>>

\* MagicHandApp.toggle_pause (app.py).  Observer.stop never raises on an
\* observer object; Observer.start is Thread.start, which raises RuntimeError
\* on a thread that was started before; both raise AttributeError on None.
toggle_pause ==
  /\ th["M"].pc = "idle"
  /\ is_paused' = ~is_paused
  /\ IF is_paused'
       THEN IF observer = "none"
              THEN /\ ui' = "pause_raised"
                   /\ UNCHANGED <<observer, events>>
              ELSE /\ ui' = "paused"
                   /\ observer' = "stopped"
                   /\ events' = {}
       ELSE /\ ui' = "resume_raised"
            /\ UNCHANGED <<observer, events>>
  /\ UNCHANGED <<clVars, fs, lib, overwritten, created, file_states, th, scanTodo, trVars, keyVars>>

\* ------------------------------------- handlers run one after the other

\* The body on_created and on_modified share, run to its end.
Handle(src_path) ==
  /\ observer = "running"
  /\ th["M"].pc = "idle"
  /\ events' = events \ {src_path}
  /\ IF IsFiltered(src_path)
       THEN UNCHANGED <<cache, last, fs, lib, overwritten, file_states>>
       ELSE \E o \in AppRemoteOutcomes, ok \in BOOLEAN : watch_file(src_path, o, ok)
  /\ UNCHANGED <<cacheFile, prev, created, th, scanTodo, appVars, trVars, keyVars>>

\* FileOrganizer.on_created
on_created == \E e \in events : Handle(e)

\* FileOrganizer.on_modified
on_modified == \E e \in events : Handle(e)

\* _scan_existing_files: one item of the loop, watch_file run to its end, the
\* remote request ending as one of outcomes and the move allowed as one of oks.
ScanStep(outcomes, oks) ==
  /\ th["M"].pc = "scan"
  /\ \E file_path \in scanTodo :
       /\ scanTodo' = scanTodo \ {file_path}
       /\ IF ScanTakes(file_path)
            THEN \E o \in outcomes, ok \in oks : watch_file(file_path, o, ok)
            ELSE UNCHANGED <<cache, last, fs, lib, overwritten, file_states>>
  /\ UNCHANGED <<cacheFile, prev, created, events, th, appVars, trVars, keyVars>>

ScanItem == ScanStep(AppRemoteOutcomes, BOOLEAN)

Next ==
  \/ UserCreate
  \/ UserWrite
  \/ PlatformNotify
  \/ on_created
  \/ on_modified
  \/ organize_now
  \/ ScanItem
  \/ ScanDone
  \/ toggle_pause

Spec == Init /\ [][Next]_vars

\* ------------------------------- files that are written once
\* The whole application when no file is written again after it was dropped.

NextWriteOnce ==
  \/ UserCreate
  \/ PlatformNotify
  \/ on_created
  \/ on_modified
  \/ organize_now
  \/ ScanItem
  \/ ScanDone
  \/ toggle_pause

SpecWriteOnce == Init /\ [][NextWriteOnce]_vars

\* ----------------------------------------- the application with its settings

\* MagicHandApp.set_api_key: the dialog is accepted (ok) or cancelled; on
\* accept monitoring is stopped, the key is written to .env and loaded into
\* the environment (saved, unless writing raises), and start_monitoring
\* creates a new observer for the same organizer (started, unless it raises).
set_api_key ==
  /\ th["M"].pc = "idle"
  /\ \E key \in Keys, ok, saved, started \in BOOLEAN :
       IF ok
         THEN /\ events' = {}
              /\ env_key' = IF saved THEN key ELSE env_key
              /\ observer' = IF started THEN "running" ELSE "none"
              /\ UNCHANGED <<is_paused, ui, api_key>>
         ELSE UNCHANGED <<events, env_key, observer, is_paused, ui, api_key>>
  /\ UNCHANGED <<clVars, fs, lib, overwritten, created, file_states, th, scanTodo, trVars>>

NextSettings ==
  \/ UserCreate
  \/ UserWrite
  \/ PlatformNotify
  \/ on_created
  \/ on_modified
  \/ organize_now
  \/ ScanItem
  \/ ScanDone
  \/ toggle_pause
  \/ set_api_key

SpecSettings == Init /\ [][NextSettings]_vars

\* ------------------------------------------- the scan of a given directory
\* organizer.py run as a script: a fresh FileOrganizer scans the files that
\* are on the desktop before any observer is started.

ScanPaths == {join(desktop_path, n) : n \in {N_hidden, N_PDF, N_xyz}}

\* The directory holds any of the three files, no cache file exists.
InitScan ==
  /\ cacheFile = [kind |-> "absent", map |-> EmptyMap]
  /\ cache = load_cache(cacheFile)
  /\ last = NoCall
  /\ prev = NoCall
  /\ created \in [ScanPaths -> {0, 1}]
  /\ \E size \in [ScanPaths -> Sizes] :
       fs = [p \in ScanPaths |-> IF created[p] = 0 THEN NoFile
                                 ELSE [id |-> <<p, 1>>, size |-> size[p]]]
  /\ lib = <<>>
  /\ overwritten = {}
  /\ file_states = <<>>
  /\ events = {}
  /\ th = [t \in Threads |-> Idle]
  /\ scanTodo = {}
  /\ observer = "none"
  /\ is_paused = FALSE
  /\ ui = "none"
  /\ now = 0
  /\ obs = NoObs
  /\ env_key = "k0"
  /\ api_key = env_key

\* One item of the scan with the remote classification answering "Code"
\* and a file system that lets every move through.
MockedScanItem == ScanStep({"Code"}, {TRUE})

NextScan == organize_now \/ MockedScanItem \/ ScanDone

SpecScan == InitScan /\ [][NextScan]_vars

\* ------------------------------------- a library that already holds files
\* The scan of a desktop holding n.xyz when AI Library/Code holds files of
\* that name, with and without counter suffix, from earlier runs.

\* f"{name} {counter}{ext}" for n.xyz inside AI Library/Code; n.xyz itself for 0
Candidate(k) ==
  join(join(ai_library, <<"Code">>),
       IF k = 0 THEN N_xyz
       ELSE splitext(N_xyz)[1] \o <<" ">> \o StrNat(k) \o splitext(N_xyz)[2])

InitProbe ==
  /\ cacheFile = [kind |-> "absent", map |-> EmptyMap]
  /\ cache = load_cache(cacheFile)
  /\ last = NoCall
  /\ prev = NoCall
  /\ created = [p \in {join(desktop_path, N_xyz)} |-> 1]
  /\ \E sz \in Sizes :
       fs = [p \in {join(desktop_path, N_xyz)} |-> [id |-> <<p, 1>>, size |-> sz]]
  /\ \E K \in SUBSET (0..MaxTaken) :
       lib = [q \in {Candidate(k) : k \in K} |-> <<q, 0>>]
  /\ overwritten = {}
  /\ file_states = <<>>
  /\ events = {}
  /\ th = [t \in Threads |-> Idle]
  /\ scanTodo = {}
  /\ observer = "none"
  /\ is_paused = FALSE
  /\ ui = "none"
  /\ now = 0
  /\ obs = NoObs
  /\ env_key = "k0"
  /\ api_key = env_key

SpecProbe == InitProbe /\ [][NextScan]_vars

\* ------------------------------------------ the stability tracker on its own

\* A fresh FileOrganizer over an empty desktop, no observer scheduled.
InitTracker ==
  /\ cacheFile = [kind |-> "absent", map |-> EmptyMap]
  /\ cache = load_cache(cacheFile)
  /\ last = NoCall
  /\ prev = NoCall
  /\ fs = [p \in DeskPaths |-> NoFile]
  /\ lib = <<>>
  /\ overwritten = {}
  /\ created = [p \in DeskPaths |-> 0]
  /\ file_states = <<>>
  /\ events = {}
  /\ th = [t \in Threads |-> Idle]
  /\ scanTodo = {}
  /\ observer = "none"
  /\ is_paused = FALSE
  /\ ui = "none"
  /\ now = 0
  /\ obs = NoObs
  /\ env_key = "k0"
  /\ api_key = env_key

\* One call of is_file_stable.
Observe ==
  \E p \in DOMAIN fs : \E f \in FilesAt(p) :
    LET s == is_file_stable(file_states, p, f, now)
    IN /\ file_states' = s.states
       /\ obs' = [path |-> p, size |-> f.size, tracked |-> p \in DOMAIN file_states,
                  old |-> IF p \in DOMAIN file_states THEN file_states[p].size ELSE 0,
                  at |-> now, ret |-> s.ret]
       /\ UNCHANGED <<clVars, fs, lib, overwritten, created, events, th, scanTodo, appVars, now, keyVars>>

\* Time passes.
Tick ==
  /\ now < MaxTime
  /\ now' = now + 1
  /\ UNCHANGED <<clVars, orgVars, appVars, obs, keyVars>>

NextTracker == Observe \/ Tick \/ UserCreate \/ UserWrite

SpecTracker == InitTracker /\ [][NextTracker]_vars

\* --------------------- the observer thread and the main thread interleaved
\* watch_file is cut where it reads or writes what both threads share:
\* file_states, the cache, the library folder, the file itself.

\* FileOrganizer.watch_file up to the call of organize_file, on thread t
WatchStart(t, file_path) ==
  \E f \in FilesAt(file_path) :
    LET s == is_file_stable(file_states, file_path, f, now)
    IN /\ file_states' = s.states
       /\ th' = [th EXCEPT ![t] = IF s.ret THEN [Idle EXCEPT !.pc = "organize", !.path = file_path]
                                  ELSE Finish(t)]

\* The observer thread takes a notification and enters the handler.
Dispatch(src_path) ==
  /\ th["W"].pc = "idle"
  /\ observer = "running"
  /\ events' = events \ {src_path}
  /\ IF IsFiltered(src_path)
       THEN UNCHANGED <<file_states, th>>
       ELSE WatchStart("W", src_path)
  /\ UNCHANGED <<clVars, fs, lib, overwritten, created, scanTodo, appVars, trVars, keyVars>>

\* FileOrganizer.on_created on the observer thread
T_on_created == \E e \in events : Dispatch(e)

\* FileOrganizer.on_modified on the observer thread
T_on_modified == \E e \in events : Dispatch(e)

\* _scan_existing_files on the main thread: one item of the loop enters watch_file.
T_ScanItem ==
  /\ th["M"].pc = "scan"
  /\ \E file_path \in scanTodo :
       /\ scanTodo' = scanTodo \ {file_path}
       /\ IF ScanTakes(file_path)
            THEN WatchStart("M", file_path)
            ELSE UNCHANGED <<file_states, th>>
  /\ UNCHANGED <<clVars, fs, lib, overwritten, created, events, appVars, trVars, keyVars>>

\* organize_file up to the remote request: the filter, then classify_file as
\* far as it gets without the network.  An exception ends organize_file.
T_Organize(t) ==
  /\ th[t].pc = "organize"
  /\ LET p == th[t].path
         r == classify_file(cache, p, DiskState(p), "raise")
     IN IF IsIgnored(basename(p))
          THEN /\ th' = [th EXCEPT ![t] = Finish(t)]
               /\ UNCHANGED <<cache, last>>
        ELSE IF r.remote
          THEN /\ th' = [th EXCEPT ![t].pc = "remote"]
               /\ UNCHANGED <<cache, last>>
        ELSE /\ cache' = r.cache
             /\ last' = CallRecord(p, r, None)
             /\ th' = [th EXCEPT ![t] = IF r.raised THEN Finish(t)
                                        ELSE [@ EXCEPT !.pc = "probe", !.category = r.ret]]
  /\ UNCHANGED <<cacheFile, prev, fs, lib, overwritten, created, file_states, events,
                 scanTodo, appVars, trVars, keyVars>>

\* classify_file once the remote request has answered.
T_Remote(t) ==
  /\ th[t].pc = "remote"
  /\ \E o \in AppRemoteOutcomes :
       LET p == th[t].path
           r == remote_step(cache, p, o)
       IN /\ cache' = r.cache
          /\ last' = CallRecord(p, r, o)
          /\ th' = [th EXCEPT ![t] = IF r.raised THEN Finish(t)
                                     ELSE [@ EXCEPT !.pc = "probe", !.category = r.ret]]
  /\ UNCHANGED <<cacheFile, prev, fs, lib, overwritten, created, file_states, events,
                 scanTodo, appVars, trVars, keyVars>>

\* organize_file: the target folder and the first free target path.
T_Probe(t) ==
  /\ th[t].pc = "probe"
  /\ LET target_dir == join(ai_library, <<th[t].category>>)
     IN th' = [th EXCEPT ![t].pc = "move",
                         ![t].target = TargetPath(target_dir, basename(th[t].path), DOMAIN lib)]
  /\ UNCHANGED <<clVars, fs, lib, overwritten, created, file_states, events, scanTodo, appVars, trVars, keyVars>>

\* organize_file: the move, after which watch_file returns.
T_Move(t) ==
  /\ th[t].pc = "move"
  /\ \E ok \in BOOLEAN : MoveFile(th[t].path, th[t].target, ok)
  /\ th' = [th EXCEPT ![t] = Finish(t)]
  /\ UNCHANGED <<clVars, created, file_states, events, scanTodo, appVars, trVars, keyVars>>

NextThreads ==
  \/ UserCreate
  \/ UserWrite
  \/ PlatformNotify
  \/ T_on_created
  \/ T_on_modified
  \/ organize_now
  \/ T_ScanItem
  \/ ScanDone
  \/ toggle_pause
  \/ \E t \in Threads : T_Organize(t)
  \/ \E t \in Threads : T_Remote(t)
  \/ \E t \in Threads : T_Probe(t)
  \/ \E t \in Threads : T_Move(t)

SpecThreads == InitThreads /\ [][NextThreads]_vars

\* ------------------------------------------------------- classifier claims

CachingExits == {"extension", "mime", "remote", "fallback"}

\* C3 (as claimed): two successive classify_file calls on the same path
\* return the same category, and the second is answered from the cache
\* without a remote request.
C3_Idempotent ==
  (prev # NoCall /\ last.path = prev.path) =>
    /\ last.ret = prev.ret
    /\ last.exit = "cache"
    /\ ~last.remote

\* C3 (amended): when a classify_file call returns through the cache hit or
\* through the extension, MIME or remote step, the next call on the same path
\* returns the same category from the cache without a remote request.
C3_IdempotentOnceCached ==
  (prev # NoCall /\ last.path = prev.path /\ prev.exit \in CachingExits \cup {"cache"}) =>
    /\ last.ret = prev.ret
    /\ last.exit = "cache"
    /\ ~last.remote

C3_Witness ==
  /\ prev.exit = "remote" /\ prev.ret = "Code"
  /\ last.path = prev.path /\ last.exit = "cache" /\ last.ret = "Code"

\* C4: every classification that completes through the extension, MIME or
\* remote step writes the entry into the in-memory cache and the cache file
\* on disk then holds the cache.
C4_PersistAfterClassify ==
  (last.exit \in CachingExits) =>
    /\ last.path \in DOMAIN cache.map
    /\ cache.map[last.path] = last.ret
    /\ cacheFile = save_cache(cache)

\* C7: when the remote step is reached and the request raises, answers
\* non-200, answers a malformed body or a label outside the category set,
\* classify_file returns "Others", caches path -> "Others" and raises nothing.
C7_RemoteFailureGivesOthers ==
  (last.remote /\ last.outcome \notin Categories) =>
    /\ ~last.raised
    /\ last.ret = "Others"
    /\ cache.kind = "dict"
    /\ last.path \in DOMAIN cache.map
    /\ cache.map[last.path] = "Others"

\* C8: whatever the cache file held at startup, the state of the file on
\* disk and the remote outcome, classify_file returns without raising.
C8_NeverRaises == ~last.raised

\* C9: every value classify_file returns is a member of the closed category
\* set, the cache-hit path with entries loaded from the cache file included.
C9_ReturnsCategory == (last # NoCall /\ ~last.raised) => last.ret \in Categories

\* -------------------------------------------------------- organizer claims

\* A basename starting with '.' or holding the temp marker '.tmp' in any case.
HiddenOrTemp(filename) ==
  filename[1] = "." \/ \E i \in 1..(Len(filename) - 1) :
                         filename[i] = "." /\ filename[i + 1] \in {"tmp", "TMP"}

\* A thread past organize_file's filter: classifying, probing or moving.
PastFilter(t) == th[t].pc \in {"remote", "probe", "move"}

\* C1: across all created/modified events and manual scans, classify_file is
\* never invoked for a hidden or temporary path, and no such file is moved.
C1_HiddenTempNeverClassified ==
  /\ last # NoCall => ~HiddenOrTemp(basename(last.path))
  /\ \A t \in Threads : PastFilter(t) => ~HiddenOrTemp(basename(th[t].path))
  /\ \A p \in DOMAIN lib : ~HiddenOrTemp(basename(lib[p][1])) /\ ~HiddenOrTemp(basename(p))

\* A temporary file that passed the stability check and a hidden file are
\* both still on the desktop after every notification has been handled.
C1_Witness ==
  /\ join(desktop_path, N_tmp) \in DOMAIN file_states
  /\ fs[join(desktop_path, N_tmp)] # NoFile
  /\ fs[join(desktop_path, N_hidden)] # NoFile
  /\ observer = "running" /\ ui = "none"
  /\ events = {}
  /\ \A t \in Threads : th[t].pc = "idle"

\* C2: organizing never overwrites a file already present in the destination
\* category folder: every file once stored in the library stays there.
C2_NeverOverwrites == overwritten = {}

\* A run of watch_file (observe, classify, move) is in progress on thread t.
InWatchFile(t) == th[t].pc \in {"organize", "remote", "probe", "move"}

\* C5: at most one execution of watch_file for a given path is in progress
\* at any time, across the observer thread's callbacks and a manual scan.
C5_OneRunPerPath ==
  ~(InWatchFile("W") /\ InWatchFile("M") /\ th["W"].path = th["M"].path)

\* C6 (for an application whose monitoring started): no toggle_pause call
\* raises, and when organizing is not paused after a toggle the observer is
\* running, so notifications are delivered again.
C6_TogglePauseNeverRaises ==
  observer # "none" =>
    /\ ui \notin {"pause_raised", "resume_raised"}
    /\ (ui # "none" /\ ~is_paused) => observer = "running"

\* p is the managed root or lies below it.
InsideRoot(p) == p = root_path \/ startswith(p, root_path \o <<"/">>)

\* p lies directly inside <AI Library>/<category>/ for a category of the closed set.
InCategoryFolder(p) ==
  \E c \in Categories : p = join(join(ai_library, <<c>>), basename(p))

\* C10: every file the organizer moved lies directly inside
\* <AI Library>/<category>/ for a category of the closed set, nothing is in
\* Manual Library, and no path inside the managed root is classified or moved.
C10_OnlyAILibrary ==
  /\ \A p \in DOMAIN lib :
       /\ InCategoryFolder(p)
       /\ ~startswith(p, manual_library)
       /\ ~InsideRoot(lib[p][1])
  /\ last # NoCall => ~InsideRoot(last.path)

\* A step in which a handler of the running observer took notification e.
Handled(e) == e \in events /\ e \notin events' /\ is_paused' = is_paused

\* A regular file directly on the desktop that is neither hidden nor temporary.
Eligible(p) == p \in DOMAIN fs /\ fs[p] # NoFile /\ ~HiddenOrTemp(basename(p))

\* C11: every created or modified notification for a non-hidden,
\* non-temporary regular file outside the managed root leads to a stability
\* observation of that path: the handler that takes it leaves file_states as
\* is_file_stable leaves it, with the path tracked at the file's size.
C11_EligibleNotificationObserved ==
  [][\A e \in ThreadsPaths :
       (Handled(e) /\ Eligible(e) /\ ~InsideRoot(e))
         => (e \in DOMAIN file_states' /\ file_states'[e].size = fs[e].size)]_vars

\* The n-th file dropped at p is still at p or is stored in the library.
Kept(p, n) == fs[p].id = <<p, n>> \/ \E q \in DOMAIN lib : lib[q] = <<p, n>>

\* C12: a failed step of organize_file (classification raising, a move the
\* file system refuses) loses no file and stops no handler: every file ever
\* dropped is at its original path or in the library, and the observer
\* thread's handler has returned.
C12_FailedMoveKeepsFile ==
  /\ \A p \in DOMAIN fs : \A n \in 1..created[p] : Kept(p, n)
  /\ th["W"].pc = "idle"

\* The first file dropped at a path was observed and classified without an
\* exception, every notification is handled, and the file is still where it
\* was dropped: its move failed.
C12_Witness ==
  \E p \in DOMAIN fs :
    /\ created[p] = 1 /\ fs[p].id = <<p, 1>>
    /\ p \in DOMAIN file_states
    /\ last.path = p /\ ~last.raised /\ last.ret \in Categories
    /\ events = {} /\ th["M"].pc = "idle"
    /\ lib = <<>>

\* ------------------------------------------------ the cascade's steps

\* This step is the call classify_file(p) on a file in state st, with the
\* remote request (if made) ending as o.
IsCall(p, st, o) ==
  LET r == classify_file(cache, p, st, o)
  IN cache' = r.cache /\ last' = CallRecord(p, r, o) /\ prev' = last

\* The lowercased extension of p, leading dot stripped.
ExtensionOf(p) == DropFirst(lower(splitext(p)[2]))

\* The categories whose extension set holds p's extension / whose MIME set
\* holds p's resolved MIME type.
ByExtension(p) == {c \in Categories : ExtensionOf(p) \in categories[c].extensions}
ByMime(p) ==
  {c \in Categories : get_mime_type(p, lower(splitext(p)[2])) \in categories[c].mime_types}

\* The first category of S in the order Design, Documents, Images, Code, Others.
FirstOf(S) ==
  CategoryOrder[CHOOSE i \in 1..Len(CategoryOrder) :
                  CategoryOrder[i] \in S /\ \A j \in 1..(i - 1) : CategoryOrder[j] \notin S]

\* C13: a call on a path that is not in the cache, whose metadata can be
\* read and whose extension is in some category's extension set returns the
\* first such category, caches it and issues no remote request.
C13_ExtensionPrecedence ==
  [][\A p \in ClPaths, o \in RemoteOutcomes :
       (IsCall(p, "present", o) /\ p \notin DOMAIN cache.map /\ ByExtension(p) # {})
         => /\ ~last'.raised
            /\ last'.ret = FirstOf(ByExtension(p))
            /\ ~last'.remote
            /\ p \in DOMAIN cache'.map /\ cache'.map[p] = last'.ret]_vars

\* C20: a remote request is issued only for a path that is not in the cache,
\* whose metadata was read and that no extension set and no MIME set matches;
\* on a MIME hit the category is cached and returned without a remote request.
C20_CascadeShortCircuits ==
  [][\A p \in ClPaths, st \in FileStates, o \in RemoteOutcomes :
       IsCall(p, st, o) =>
         /\ last'.remote =>
              /\ p \notin DOMAIN cache.map
              /\ st = "present"
              /\ ByExtension(p) = {} /\ ByMime(p) = {}
         /\ (p \notin DOMAIN cache.map /\ st = "present"
               /\ ByExtension(p) = {} /\ ByMime(p) # {}) =>
              /\ ~last'.raised
              /\ last'.ret = FirstOf(ByMime(p))
              /\ ~last'.remote
              /\ p \in DOMAIN cache'.map /\ cache'.map[p] = last'.ret]_vars

\* --------------------------------------------------- tracker claims

\* C14: a call of is_file_stable on an existing non-hidden path returns true
\* when the path had no tracked entry, and the entry then holds the current
\* size; it returns true when the path was tracked with the current size.
C14_NewOrUnchangedIsStable ==
  (obs # NoObs /\ obs.size # 0 /\ basename(obs.path)[1] # ".") =>
    /\ ~obs.tracked =>
         /\ obs.ret
         /\ obs.path \in DOMAIN file_states
         /\ file_states[obs.path].size = obs.size
    /\ (obs.tracked /\ obs.old = obs.size) => obs.ret

\* A tracked file was observed again, later, with its size unchanged.
C14_Witness ==
  /\ obs.tracked /\ obs.size # 0 /\ obs.old = obs.size /\ obs.ret
  /\ obs.at > file_states[obs.path].stable_since

\* C15: a call of is_file_stable that finds a tracked path with a size other
\* than the tracked one returns false, stores the new size and resets
\* last_modified and stable_since to the time of the call; the next call
\* that finds the same size returns true.
C15_SizeChangeResets ==
  (obs.tracked /\ obs.size # 0 /\ obs.size # obs.old) =>
    /\ ~obs.ret
    /\ file_states[obs.path] =
         [size |-> obs.size, last_modified |-> obs.at, stable_since |-> obs.at]
    /\ \A t \in now..MaxTime :
         is_file_stable(file_states, obs.path, [id |-> <<>>, size |-> obs.size], t).ret

\* A tracked file was found with another size, some time after it was first seen.
C15_Witness ==
  /\ obs.tracked /\ obs.size # 0 /\ obs.size # obs.old /\ ~obs.ret
  /\ obs.at > 0 /\ now > obs.at

\* ------------------------------------------------------ scan claims

\* Where the scenario's files belong: the '.pdf' in Documents, the file of
\* unknown type in Code.
ScenarioTarget(p) ==
  join(join(ai_library, <<IF lower(splitext(p)[2]) = <<".", "pdf">>
                            THEN "Documents" ELSE "Code">>),
       basename(p))

\* Every file of the directory has been handled: a hidden file is where it
\* was and is not tracked, every other file is in its category folder, and
\* the library holds nothing else.
ScanHandledAll ==
  /\ scanTodo = {}
  /\ \A p \in DOMAIN fs :
       created[p] = 1 =>
         IF basename(p)[1] = "."
           THEN fs[p].id = <<p, 1>> /\ p \notin DOMAIN file_states
           ELSE /\ fs[p] = NoFile
                /\ ScenarioTarget(p) \in DOMAIN lib
                /\ lib[ScenarioTarget(p)] = <<p, 1>>
  /\ Cardinality(DOMAIN lib) =
       Cardinality({p \in DOMAIN fs : created[p] = 1 /\ basename(p)[1] # "."})

\* C16: when a manual scan on a fresh organizer returns, every non-hidden
\* file of the directory has gone through observe, classify and move and the
\* hidden ones were skipped; with a hidden file, a '.pdf' and a file of
\* unknown type answered "Code", exactly two files are moved, into
\* AI Library/Documents and AI Library/Code.
C16_ScanOrganizesAll ==
  [][(th["M"].pc = "scan" /\ th'["M"].pc = "idle") => ScanHandledAll]_vars

\* The scan of a directory holding all three files has returned with two
\* files in the library and the hidden one on the desktop.
C16_Witness ==
  /\ \A p \in ScanPaths : p \in DOMAIN created /\ created[p] = 1
  /\ th["M"].pc = "idle"
  /\ Cardinality(DOMAIN lib) = 2
  /\ fs[join(desktop_path, N_hidden)] # NoFile
  /\ join(join(ai_library, <<"Documents">>), N_PDF) \in DOMAIN lib
  /\ join(join(ai_library, <<"Code">>), N_xyz) \in DOMAIN lib

\* C17: the tracker never tracks a hidden or temporary file: a call of
\* is_file_stable on a path whose basename starts with '.' or holds the temp
\* marker returns false, and no such path has an entry in file_states.
C17_NeverTracksHiddenTemp ==
  /\ (obs # NoObs /\ HiddenOrTemp(basename(obs.path))) => ~obs.ret
  /\ \A p \in DOMAIN file_states : ~HiddenOrTemp(basename(p))

\* -------------------------------------------------- re-evaluation claims

\* Every notification since the start has been delivered and handled.
AllHandled ==
  /\ observer = "running" /\ ui = "none"
  /\ events = {}
  /\ \A t \in Threads : th[t].pc = "idle"

\* C18 (the case of a path used again): when a file was organized from path
\* p and a new file dropped at p is written once and never touched, its
\* first observation classifies it; so once its notifications are handled,
\* the most recent classification of p is the new file's, answered from the
\* cache entry the earlier file left.
C18_ReArrivalClassified ==
  \A p \in DOMAIN fs :
    (/\ Eligible(p) /\ ~IsFiltered(p)
     /\ created[p] >= 2 /\ fs[p].id = <<p, created[p]>>
     /\ \E q \in DOMAIN lib : lib[q] = <<p, 1>>
     /\ AllHandled
     /\ last.path = p)
      => last.exit = "cache"

\* A step in which the manual scan visited p.
Scanned(p) == p \in scanTodo /\ p \notin scanTodo'

\* The file at p was observed before, stayed on the desktop, and has the size
\* the tracker last saw.
LeftInPlace(p) ==
  /\ Eligible(p)
  /\ p \in DOMAIN file_states
  /\ file_states[p].size = fs[p].size

\* C19: a file left in place is re-evaluated: the next notification for it,
\* or the next manual scan, that finds its size unchanged runs classify and
\* move for it: classify_file returns a category for the path and the file
\* is moved, or stays untouched when the move fails again.
C19_LeftFileReevaluated ==
  [][\A p \in DOMAIN fs :
       (LeftInPlace(p) /\ (Handled(p) \/ Scanned(p)))
         => /\ last'.path = p /\ ~last'.raised
            /\ fs'[p] = NoFile \/ fs'[p] = fs[p]]_vars

\* ------------------------------------------------- cache claims

\* C21: a call on a path that is not in the cache and whose metadata cannot
\* be gathered (the file vanished or its size cannot be read) returns
\* "Others", issues no remote request and leaves the cache as it was, with
\* no entry for the path.
C21_NoInfoNotCached ==
  [][\A p \in ClPaths, st \in FileStates \ {"present"}, o \in RemoteOutcomes :
       (IsCall(p, st, o) /\ p \notin DOMAIN cache.map)
         => /\ ~last'.raised
            /\ last'.ret = "Others"
            /\ ~last'.remote
            /\ cache' = cache
            /\ p \notin DOMAIN cache'.map]_vars

\* C22: cache entries are write-once: no step of the running process, on
\* either thread and whatever the remote request answers, changes or removes
\* the entry of a path that is present in the cache.
C22_CacheWriteOnce ==
  [][\A p \in DOMAIN cache.map :
       p \in DOMAIN cache'.map /\ cache'.map[p] = cache.map[p]]_vars

\* ------------------------------------------------- collision claims

\* The library files an earlier run left.
Earlier == {q \in DOMAIN lib : lib[q][2] = 0}

\* C23: the collision probe terminates and is minimal: the scan returns with
\* the file moved, and the file moved from the desktop is stored as n.xyz
\* when that name was free, else as 'n k.xyz' for the smallest k >= 1 whose
\* name was free.
C23_ProbeMinimal ==
  /\ \A q \in DOMAIN lib :
       lib[q][2] = 1 =>
         IF Candidate(0) \notin Earlier
           THEN q = Candidate(0)
           ELSE \E k \in 1..(MaxTaken + 1) :
                  /\ q = Candidate(k)
                  /\ \A j \in 1..(k - 1) : Candidate(j) \in Earlier
  /\ overwritten = {}
  /\ (th["M"].pc = "idle" /\ file_states # <<>>) => \E q \in DOMAIN lib : lib[q][2] = 1

\* n.xyz and 'n 1.xyz' were taken, 'n 2.xyz' was free below a taken
\* 'n 3.xyz', and the file was stored as 'n 2.xyz'.
C23_Witness ==
  /\ {Candidate(0), Candidate(1), Candidate(3)} \subseteq Earlier
  /\ Candidate(2) \in DOMAIN lib /\ lib[Candidate(2)][2] = 1
  /\ th["M"].pc = "idle"

\* ------------------------------------------------- settings claims

\* C24 (for an application whose observer could be started and whose most
\* recent toggle_pause did not raise): the pause flag and the watcher agree,
\* is_paused is true exactly when no observer is running.
C24_PauseFlagMatchesObserver ==
  (observer # "none" /\ ui \notin {"pause_raised", "resume_raised"}) =>
    (is_paused <=> observer # "running")

\* C25: every remote classification request carries the key that is in the
\* environment at that time, so after set_api_key has stored a new key the
\* requests carry the new key and not the one the classifier was built with.
C25_RequestsCarryCurrentKey ==
  [][(last' # last /\ last'.remote) => last'.key = env_key]_vars

====
